---- MODULE Spec2Model ----
(***************************************************************************)
(* saml_reader.text_reader.TextReader: the constructor's parse-resolution  *)
(* pipeline (input validation, acquisition, standard parser, regex         *)
(* fallback, error classification, certificate extraction) and the         *)
(* read-only accessors of the resulting object.                            *)
(*                                                                         *)
(* One TextReader construction is a "run".  `runs` maps a run id to the    *)
(* state of that construction: the call arguments, the position in         *)
(* __init__, the attributes assigned on `self` so far (a Python object     *)
(* only has the attributes that were assigned), the local variables, the   *)
(* exception that left __init__ (if any) and the list of calls made to the *)
(* collaborators (parsers, HarParser, Certificate, the parsed object).     *)
(***************************************************************************)
EXTENDS Naturals, Sequences, FiniteSets, TLC

VARIABLES runs

vars == <<runs>>

(***************************************************************************)
(* Python values.  All values are records tagged with their type so that   *)
(* None, strings and objects can be compared with each other.              *)
(***************************************************************************)
PyNone == [type |-> "NoneType"]

PyStr(s) == [type |-> "str", val |-> s]

\* variant: `is not None` for the truth value
Truthy_not_none(v) == v.type # "NoneType"

\* truth value of a Python value, as used by `if raw_cert:`
Truthy(v) ==
    CASE v.type = "NoneType" -> FALSE
      [] v.type = "str"      -> v.val # ""
      [] OTHER               -> TRUE

\* self.<attr> = value
SetAttr(obj, attr, value) == (attr :> value) @@ obj

HasAttr(obj, attr) == attr \in DOMAIN obj

\* result of calling an accessor: a returned value or a raised exception
Return(v) == [returned |-> v]

Raise(e) == [raised |-> e]

(***************************************************************************)
(* Call arguments                                                          *)
(***************************************************************************)
\* variant: one more accepted input type
VALID_INPUT_TYPES_with_json == {"base64", "xml", "har", "json"}

VALID_INPUT_TYPES == {"base64", "xml", "har"}

Sources == {"clip", "stdin", "file", "url"}

InputTypes == {"base64", "xml", "har", "XML", "json"}

Filenames == {PyNone, PyStr("response.txt")}

\* str.lower() on the input types of the model
Lower(s) ==
    CASE s = "XML" -> "xml"
      [] OTHER     -> s

Tiers == {"strict", "relaxed", "regex"}

(***************************************************************************)
(* Collaborators: what the parsers and the certificate class can answer    *)
(***************************************************************************)
\* raw certificate blobs a parsed object can hold: none, an empty string,
\* a decodable blob, an undecodable blob
CertBlobs == {PyNone, PyStr(""), PyStr("MIIC-good"), PyStr("MIIC-bad")}

\* a parsed SAML object
SamlObject(parser, found, blob, relaxed) ==
    [type |-> "SamlParser", parser |-> parser, found_any_values |-> found,
     certificate |-> blob, used_relaxed_parser |-> relaxed]

\* outcomes of StandardSamlParser.from_xml / from_base64
StandardResults ==
    { [outcome |-> "Success", saml |-> SamlObject("standard", f, b, x)] :
         f \in BOOLEAN, b \in CertBlobs, x \in BOOLEAN }
    \cup { [outcome |-> "SamlParsingError"] }
    \cup { [outcome |-> "SamlResponseEncryptedError", parser |-> p] : p \in Tiers }
    \cup { [outcome |-> "IsASamlRequest", parser |-> p] : p \in Tiers }

\* outcomes of RegexSamlParser.from_xml / from_base64
RegexResults ==
    { [outcome |-> "Success", saml |-> SamlObject("regex", f, b, FALSE)] :
         f \in BOOLEAN, b \in CertBlobs }
    \cup { [outcome |-> "SamlParsingError"] }
    \cup { [outcome |-> "SamlResponseEncryptedError", parser |-> "regex"] }
    \cup { [outcome |-> "IsASamlRequest", parser |-> "regex"] }

\* Certificate(raw_cert): a handle, or an exception for an undecodable blob
Certificate(raw_cert) ==
    IF raw_cert = PyStr("MIIC-bad")
    THEN Raise("CertificateError")
    ELSE Return([type |-> "Certificate", blob |-> raw_cert])

(***************************************************************************)
(* Messages appended to self._errors                                       *)
(***************************************************************************)
FallbackWarning(parser_used) ==
    CASE parser_used = "relaxed" ->
           "WARNING: XML parsing failed. Using fallback 'relaxed' parser. Some values may not parse correctly.\n"
      [] parser_used = "regex" ->
           "WARNING: XML parsing failed. Using fallback 'regex' parser. Some values may not parse correctly.\n"
      [] OTHER ->
           "WARNING: XML parsing failed. Using fallback 'strict' parser. Some values may not parse correctly.\n"

FallbackWarnings == { FallbackWarning(p) : p \in Tiers }

EncryptedAdvisory ==
    "SAML response is encrypted. Cannot parse.\nAdvise customer to update their identity provider to send an unencrypted SAML response."

RequestAdvisory ==
    "The input data appears to be a SAML request instead of a SAML response.\nPlease ask the customer for the SAML response instead of the request."

NoValuesMessage ==
    "Could not parse any relevant information from the input data.\nPlease make sure that your input contains SAML data."

NoCertificateMessage ==
    "Could not locate certificate. Identity provider info will not be available."

(***************************************************************************)
(* State of one construction                                               *)
(***************************************************************************)
NewRun(source, input_type, filename) ==
    [pc     |-> "start",
     args   |-> [source |-> source, input_type |-> input_type, filename |-> filename],
     self   |-> <<>>,
     locals |-> <<>>,
     exc    |-> "none",
     calls  |-> <<>>]

\* the statement raised: __init__ is left with the exception
Raised(st, e) == [st EXCEPT !.pc = "raised", !.exc = e]

Called(st, obj, fn, out) ==
    [st EXCEPT !.calls = Append(@, [obj |-> obj, fn |-> fn, out |-> out])]

\* one construction, with any arguments
Init ==
    runs \in [{1} -> { NewRun(s, t, f) : s \in Sources, t \in InputTypes, f \in Filenames }]

\* two independent constructions on the same assertion: one given as base64
\* text, the other as XML text
InitPair ==
    runs \in { p \in [{1, 2} -> { NewRun(s, t, PyNone) : s \in {"clip", "stdin"},
                                                        t \in {"base64", "xml"} }] :
                 /\ p[1].args.input_type = "base64"
                 /\ p[2].args.input_type = "xml"
                 /\ p[1].args.source = p[2].args.source }

(***************************************************************************)
(* __init__, lines 45-49: the error list and the input type check          *)
(***************************************************************************)
check_input_type(st) ==
    LET self1      == SetAttr(st.self, "_errors", <<>>)
        input_type == Lower(st.args.input_type)
        st1        == [st EXCEPT !.self = self1,
                                 !.locals = SetAttr(@, "input_type", input_type)]
    IN  IF input_type \notin VALID_INPUT_TYPES
        THEN Raised(st1, "ValueError")
        ELSE [st1 EXCEPT !.pc = "read"]

(***************************************************************************)
(* The three readers.  `exists` tells whether the file can be opened.      *)
(***************************************************************************)
_read_file(filename, exists) ==
    IF filename.type # "str" THEN Raise("TypeError")
    ELSE IF ~exists THEN Raise("FileNotFoundError")
    ELSE Return(PyStr("text of the file"))

_read_clipboard == Return(PyStr("text of the clipboard"))

_read_stdin == Return(PyStr("text of stdin"))

\* __init__, lines 51-58: acquisition of the raw text
read_source(st, exists) ==
    LET source == st.args.source
        got    == CASE source = "clip"  -> _read_clipboard
                    [] source = "stdin" -> _read_stdin
                    [] source = "file"  -> _read_file(st.args.filename, exists)
                    [] OTHER            -> Raise("ValueError")
        st1    == IF source \in {"clip", "stdin", "file"}
                  THEN Called(st, "TextReader",
                              CASE source = "clip"  -> "_read_clipboard"
                                [] source = "stdin" -> "_read_stdin"
                                [] OTHER            -> "_read_file",
                              IF "raised" \in DOMAIN got THEN got.raised ELSE "text")
                  ELSE st
    IN  IF "raised" \in DOMAIN got
        THEN Raised(st1, got.raised)
        ELSE [st1 EXCEPT !.locals = SetAttr(@, "raw_data", got.returned),
                         !.pc = "parse_standard"]

(***************************************************************************)
(* _parse_raw_data, lines 178-200: the parser entry point used for an      *)
(* input type.  `result` is the answer of the parser.  The value is the    *)
(* list of collaborator calls made, or the exception raised for an         *)
(* input type that is none of the three.                                   *)
(***************************************************************************)
_parse_raw_data(input_type, parser, result) ==
    CASE input_type = "base64" ->
           Return(<<[obj |-> parser, fn |-> "from_base64", out |-> result.outcome]>>)
      [] input_type = "xml" ->
           Return(<<[obj |-> parser, fn |-> "from_xml", out |-> result.outcome]>>)
      [] input_type = "har" ->
           Return(<<[obj |-> "HarParser", fn |-> "parse", out |-> "base64 text"],
                    [obj |-> parser, fn |-> "from_base64", out |-> result.outcome]>>)
      [] OTHER -> Raise("ValueError")

(***************************************************************************)
(* __init__, lines 60-80: the standard parser attempt                      *)
(***************************************************************************)
\* lines 67-68: the tier recorded after a successful standard parse
TierOfSuccess(saml) == IF saml.used_relaxed_parser THEN "relaxed" ELSE "strict"

\* lines 69-70: the tier recorded after a generic failure of the standard parser
TierOfParsingError == "regex"

\* lines 75 and 80: the tier recorded after an encrypted response or a
\* request, taken from the exception
TierOfException(e) == e.parser

parse_standard(st, result) ==
    LET self0   == SetAttr(SetAttr(st.self, "_valid_saml", TRUE), "_parser_used", "strict")
        locals0 == SetAttr(SetAttr(st.locals, "is_encrypted", FALSE), "is_a_response", FALSE)
        parsed  == _parse_raw_data(st.locals.input_type, "StandardSamlParser", result)
        st0     == [st EXCEPT !.self = self0, !.locals = locals0]
    IN  IF "raised" \in DOMAIN parsed THEN Raised(st0, parsed.raised)
        ELSE
        LET st1 == [st0 EXCEPT !.calls = @ \o parsed.returned, !.pc = "parse_regex"]
        IN  CASE result.outcome = "Success" ->
                   LET st2 == Called(st1, "SamlParser", "used_relaxed_parser",
                                     IF result.saml.used_relaxed_parser THEN "True" ELSE "False")
                   IN  [st2 EXCEPT !.self =
                           SetAttr(SetAttr(@, "_saml", result.saml),
                                   "_parser_used", TierOfSuccess(result.saml))]
              [] result.outcome = "SamlParsingError" ->
                   [st1 EXCEPT !.self = SetAttr(@, "_parser_used", TierOfParsingError)]
              [] result.outcome = "SamlResponseEncryptedError" ->
                   [st1 EXCEPT !.locals = SetAttr(@, "is_encrypted", TRUE),
                               !.self = SetAttr(SetAttr(SetAttr(@, "_saml", PyNone),
                                                        "_valid_saml", FALSE),
                                                "_parser_used", TierOfException(result))]
              [] result.outcome = "IsASamlRequest" ->
                   [st1 EXCEPT !.locals = SetAttr(@, "is_a_response", TRUE),
                               !.self = SetAttr(SetAttr(SetAttr(@, "_saml", PyNone),
                                                        "_valid_saml", FALSE),
                                                "_parser_used", TierOfException(result))]

(***************************************************************************)
(* __init__, lines 82-93: the regex parser attempt                         *)
(***************************************************************************)
\* variant: the regex parser is tried after any fallback
UsesRegexParser_any_fallback(self) == self._parser_used # "strict"

\* line 82
UsesRegexParser(self) == self._parser_used = "regex"

\* exceptions of the regex parser that lines 86-93 catch
CaughtFromRegex == {"SamlResponseEncryptedError", "IsASamlRequest"}

parse_regex(st, result) ==
    IF ~UsesRegexParser(st.self) THEN [st EXCEPT !.pc = "fallback_warning"]
    ELSE
    LET parsed == _parse_raw_data(st.locals.input_type, "RegexSamlParser", result)
    IN  IF "raised" \in DOMAIN parsed THEN Raised(st, parsed.raised)
        ELSE
        LET st1 == [st EXCEPT !.calls = @ \o parsed.returned, !.pc = "fallback_warning"]
        IN  CASE result.outcome = "Success" ->
                   [st1 EXCEPT !.self = SetAttr(@, "_saml", result.saml)]
              [] result.outcome = "SamlResponseEncryptedError"
                 /\ result.outcome \in CaughtFromRegex ->
                   [st1 EXCEPT !.locals = SetAttr(@, "is_encrypted", TRUE),
                               !.self = SetAttr(SetAttr(@, "_saml", PyNone),
                                                "_valid_saml", FALSE)]
              [] result.outcome = "IsASamlRequest"
                 /\ result.outcome \in CaughtFromRegex ->
                   [st1 EXCEPT !.locals = SetAttr(@, "is_a_response", TRUE),
                               !.self = SetAttr(SetAttr(@, "_saml", PyNone),
                                                "_valid_saml", FALSE)]
              [] OTHER -> Raised(st1, result.outcome)

(***************************************************************************)
(* __init__, lines 95-132: the error log and the two validity flags        *)
(***************************************************************************)
\* variant: the message is put in front of the list
AppendError_prepend(st, msg) ==
    [st EXCEPT !.self = SetAttr(@, "_errors", <<msg>> \o @._errors)]

AppendError(st, msg) == [st EXCEPT !.self = SetAttr(@, "_errors", Append(@._errors, msg))]

\* variant: only the regex tier is announced
NeedsFallbackWarning_regex_only(self) == self._parser_used = "regex"

\* line 95
NeedsFallbackWarning(self) == self._parser_used # "strict"

\* lines 95-97
fallback_warning(st) ==
    LET st1 == [st EXCEPT !.pc = "encrypted_rule"]
    IN  IF NeedsFallbackWarning(st.self)
        THEN AppendError(st1, FallbackWarning(st.self._parser_used))
        ELSE st1

\* lines 99-105
encrypted_rule(st) ==
    IF st.locals.is_encrypted
    THEN [AppendError(st, EncryptedAdvisory) EXCEPT !.pc = "done"]
    ELSE [st EXCEPT !.pc = "request_rule"]

\* lines 107-112
request_rule(st) ==
    IF st.locals.is_a_response
    THEN [AppendError(st, RequestAdvisory) EXCEPT !.pc = "done"]
    ELSE [st EXCEPT !.pc = "no_values_rule"]

\* variant: the flag is left as it was
ValidSamlWithoutValues_unchanged == TRUE

\* line 119: the SAML flag of an object without values
ValidSamlWithoutValues == FALSE

\* variant: the test of line 114 without its `not`
LacksValues_inverted(found) == found

\* line 114
LacksValues(found) == ~found

\* lines 114-119
no_values_rule(st) ==
    IF ~HasAttr(st.self, "_saml") \/ st.self._saml.type # "SamlParser"
    THEN Raised(st, "AttributeError")
    ELSE
    LET found == st.self._saml.found_any_values
        st1   == [Called(st, "SamlParser", "found_any_values",
                         IF found THEN "True" ELSE "False")
                    EXCEPT !.pc = "certificate_rule"]
    IN  IF LacksValues(found)
        THEN [AppendError(st1, NoValuesMessage)
                EXCEPT !.self = SetAttr(@, "_valid_saml", ValidSamlWithoutValues)]
        ELSE st1

\* variant: the certificate is extracted whatever the SAML flag
ExtractsCertificate_always(self) == TRUE

\* variant: the certificate is extracted only after a strict parse
ExtractsCertificate_strict_only(self) == self._valid_saml /\ self._parser_used = "strict"

\* line 123
ExtractsCertificate(self) == self._valid_saml

\* variant: `is None` for `is not None`
CertificatePresent_inverted(cert) == cert = PyNone

\* line 132
CertificatePresent(cert) == cert # PyNone

\* lines 121-132
certificate_rule(st) ==
    LET st0 == [st EXCEPT !.self = SetAttr(SetAttr(@, "_valid_cert", FALSE), "_cert", PyNone)]
    IN  IF ~ExtractsCertificate(st0.self) THEN [st0 EXCEPT !.pc = "done"]
        ELSE
        LET raw_cert == st0.self._saml.certificate
            st1      == [Called(st0, "SamlParser", "get_certificate", raw_cert.type)
                           EXCEPT !.locals = SetAttr(@, "raw_cert", raw_cert)]
        IN  IF Truthy(raw_cert)
            THEN LET built == Certificate(raw_cert)
                 IN  IF "raised" \in DOMAIN built
                     THEN Raised(Called(st1, "Certificate", "__init__", built.raised),
                                 built.raised)
                     ELSE LET st2 == [Called(st1, "Certificate", "__init__", "Certificate")
                                        EXCEPT !.self = SetAttr(@, "_cert", built.returned)]
                          IN  [st2 EXCEPT !.self = SetAttr(@, "_valid_cert",
                                                           CertificatePresent(@._cert)),
                                          !.pc = "done"]
            ELSE LET st2 == AppendError(st1, NoCertificateMessage)
                 IN  [st2 EXCEPT !.self = SetAttr(@, "_valid_cert",
                                                  CertificatePresent(@._cert)),
                                 !.pc = "done"]

(***************************************************************************)
(* The accessors, lines 202-251.  Reading an attribute that __init__ never *)
(* assigned raises AttributeError.                                         *)
(***************************************************************************)
GetAttr(obj, attr) == IF HasAttr(obj, attr) THEN Return(obj[attr]) ELSE Raise("AttributeError")

get_saml(st) == GetAttr(st.self, "_saml")

get_certificate(st) == GetAttr(st.self, "_cert")

saml_is_valid(st) == GetAttr(st.self, "_valid_saml")

cert_is_valid(st) == GetAttr(st.self, "_valid_cert")

get_errors(st) == GetAttr(st.self, "_errors")

(***************************************************************************)
(* Actions: one per block of __init__, for one of the runs                 *)
(***************************************************************************)
CheckInputType ==
    \E r \in DOMAIN runs :
        /\ runs[r].pc = "start"
        /\ runs' = [runs EXCEPT ![r] = check_input_type(@)]

ReadSource ==
    \E r \in DOMAIN runs :
        /\ runs[r].pc = "read"
        /\ \E exists \in BOOLEAN : runs' = [runs EXCEPT ![r] = read_source(@, exists)]

ParseStandard ==
    \E r \in DOMAIN runs :
        /\ runs[r].pc = "parse_standard"
        /\ \E result \in StandardResults :
              runs' = [runs EXCEPT ![r] = parse_standard(@, result)]

ParseRegex ==
    \E r \in DOMAIN runs :
        /\ runs[r].pc = "parse_regex"
        /\ \E result \in RegexResults :
              runs' = [runs EXCEPT ![r] = parse_regex(@, result)]

FallbackWarningRule ==
    \E r \in DOMAIN runs :
        /\ runs[r].pc = "fallback_warning"
        /\ runs' = [runs EXCEPT ![r] = fallback_warning(@)]

EncryptedRule ==
    \E r \in DOMAIN runs :
        /\ runs[r].pc = "encrypted_rule"
        /\ runs' = [runs EXCEPT ![r] = encrypted_rule(@)]

RequestRule ==
    \E r \in DOMAIN runs :
        /\ runs[r].pc = "request_rule"
        /\ runs' = [runs EXCEPT ![r] = request_rule(@)]

NoValuesRule ==
    \E r \in DOMAIN runs :
        /\ runs[r].pc = "no_values_rule"
        /\ runs' = [runs EXCEPT ![r] = no_values_rule(@)]

CertificateRule ==
    \E r \in DOMAIN runs :
        /\ runs[r].pc = "certificate_rule"
        /\ runs' = [runs EXCEPT ![r] = certificate_rule(@)]

Next ==
    \/ CheckInputType
    \/ ReadSource
    \/ ParseStandard
    \/ ParseRegex
    \/ FallbackWarningRule
    \/ EncryptedRule
    \/ RequestRule
    \/ NoValuesRule
    \/ CertificateRule

Spec == Init /\ [][Next]_vars

SpecPair == InitPair /\ [][Next]_vars

(***************************************************************************)
(* Reports: a construction that returned to its caller                     *)
(***************************************************************************)
Reports == { r \in DOMAIN runs : runs[r].pc = "done" }

HasCall(st, obj, fn, out) == \E i \in DOMAIN st.calls : st.calls[i] = [obj |-> obj, fn |-> fn, out |-> out]

CallsTo(st, obj) == { i \in DOMAIN st.calls : st.calls[i].obj = obj }

TypeOK ==
    \A r \in DOMAIN runs :
        /\ runs[r].pc \in {"start", "read", "parse_standard", "parse_regex", "fallback_warning",
                           "encrypted_rule", "request_rule", "no_values_rule",
                           "certificate_rule", "done", "raised"}
        /\ (runs[r].pc = "raised") <=> (runs[r].exc # "none")

(***************************************************************************)
(* What the parsers answered in a run                                      *)
(***************************************************************************)
Parsers == {"StandardSamlParser", "RegexSamlParser"}

\* the outcomes of the attempts of one parser in a run
OutcomesOf(st, parser) == { st.calls[i].out : i \in CallsTo(st, parser) }

\* some parser reported the response as encrypted
ReportedEncrypted(st) ==
    \E p \in Parsers : "SamlResponseEncryptedError" \in OutcomesOf(st, p)

\* the parser tier of a run
parserTier(st) == st.self._parser_used

\* the fallback warnings in an error list
WarningsIn(errors) == { errors[i] : i \in { k \in DOMAIN errors : errors[k] \in FallbackWarnings } }

(***************************************************************************)
(* Claims                                                                  *)
(***************************************************************************)

\* C1: in every report, cert_is_valid() is true only if saml_is_valid() is true.
C1_CertValidOnlyIfSamlValid ==
    \A r \in Reports :
        cert_is_valid(runs[r]) = Return(TRUE) => saml_is_valid(runs[r]) = Return(TRUE)

C1_Witness ==
    \E r \in Reports :
        /\ cert_is_valid(runs[r]) = Return(TRUE)
        /\ saml_is_valid(runs[r]) = Return(TRUE)
        /\ HasCall(runs[r], "Certificate", "__init__", "Certificate")

\* C2: whenever a parser reports the response as encrypted, the report has
\* saml_is_valid() = False and cert_is_valid() = False, and neither the
\* no-values check nor the certificate extraction is applied.
C2_EncryptedReportHasBothFlagsFalse ==
    \A r \in Reports :
        ReportedEncrypted(runs[r]) =>
            /\ saml_is_valid(runs[r]) = Return(FALSE)
            /\ cert_is_valid(runs[r]) = Return(FALSE)
            /\ CallsTo(runs[r], "SamlParser") = {}
            /\ CallsTo(runs[r], "Certificate") = {}

\* C3: when the standard parser classifies the input as a request, the
\* report has samlValid = false, certValid = false and errors is exactly
\* the request advisory.
C3_RequestReport ==
    \A r \in Reports :
        "IsASamlRequest" \in OutcomesOf(runs[r], "StandardSamlParser") =>
            /\ saml_is_valid(runs[r]) = Return(FALSE)
            /\ cert_is_valid(runs[r]) = Return(FALSE)
            /\ get_errors(runs[r]) = Return(<<RequestAdvisory>>)

\* C4 as stated: for every input classified as encrypted, by either tier,
\* the encryption advisory is the only message in errors.
C4_AdvisoryIsOnlyMessage ==
    \A r \in Reports :
        ReportedEncrypted(runs[r]) => get_errors(runs[r]) = Return(<<EncryptedAdvisory>>)

\* C4 as amended: for every input classified as encrypted, the encryption
\* advisory is the last message in errors and is preceded by nothing but the
\* fallback warning, which is there exactly when the parser tier is not
\* strict and names that tier.
C4_AdvisoryAfterFallbackWarningOnly ==
    \A r \in Reports :
        ReportedEncrypted(runs[r]) =>
            get_errors(runs[r]) =
                Return(IF parserTier(runs[r]) = "strict"
                       THEN <<EncryptedAdvisory>>
                       ELSE <<FallbackWarning(parserTier(runs[r])), EncryptedAdvisory>>)

C4_Witness ==
    \E r \in Reports :
        /\ "SamlParsingError" \in OutcomesOf(runs[r], "StandardSamlParser")
        /\ "SamlResponseEncryptedError" \in OutcomesOf(runs[r], "RegexSamlParser")
        /\ Len(runs[r].self._errors) = 2
        /\ runs[r].self._errors[2] = EncryptedAdvisory

\* C5: once the raw text has been acquired, construction never ends by
\* raising, whatever the parsers and the certificate construction do.
C5_NoRaiseAfterAcquisition ==
    \A r \in DOMAIN runs :
        HasAttr(runs[r].locals, "raw_data") => runs[r].pc # "raised"

\* C6: in every report, if saml_is_valid() is true then get_saml() returns a
\* parsed object (not None) whose found_any_values() is true.
C6_ValidSamlHasObjectWithValues ==
    \A r \in Reports :
        saml_is_valid(runs[r]) = Return(TRUE) =>
            /\ "returned" \in DOMAIN get_saml(runs[r])
            /\ get_saml(runs[r]).returned # PyNone
            /\ get_saml(runs[r]).returned.type = "SamlParser"
            /\ get_saml(runs[r]).returned.found_any_values

C6_Witness ==
    \E r \in Reports :
        /\ saml_is_valid(runs[r]) = Return(TRUE)
        /\ HasCall(runs[r], "SamlParser", "found_any_values", "True")

\* C7: in every report, the fallback warning is in errors exactly when the
\* parser tier is not strict, and it names that tier; a standard parse that
\* succeeded without the relaxed mode gives the strict tier and no warning.
C7_WarningIffNotStrict ==
    \A r \in Reports :
        LET errors == runs[r].self._errors
            tier   == parserTier(runs[r])
        IN  /\ (WarningsIn(errors) # {}) <=> (tier # "strict")
            /\ tier # "strict" => WarningsIn(errors) = {FallbackWarning(tier)}
            /\ HasCall(runs[r], "SamlParser", "used_relaxed_parser", "False") =>
                  tier = "strict" /\ WarningsIn(errors) = {}

C7_Witness ==
    \E r \in Reports :
        /\ HasCall(runs[r], "SamlParser", "used_relaxed_parser", "True")
        /\ parserTier(runs[r]) = "relaxed"
        /\ runs[r].self._errors[1] = FallbackWarning("relaxed")

\* C8: when the standard parser fails with a generic failure and the regex
\* parser then succeeds with at least one value, the report has the regex
\* tier, samlValid = true and the fallback warning in errors.
C8_RegexFallbackReport ==
    \A r \in Reports :
        /\ "SamlParsingError" \in OutcomesOf(runs[r], "StandardSamlParser")
        /\ "Success" \in OutcomesOf(runs[r], "RegexSamlParser")
        /\ HasCall(runs[r], "SamlParser", "found_any_values", "True")
        => /\ parserTier(runs[r]) = "regex"
           /\ saml_is_valid(runs[r]) = Return(TRUE)
           /\ \E i \in DOMAIN runs[r].self._errors :
                 runs[r].self._errors[i] = FallbackWarning("regex")

C8_Witness ==
    \E r \in Reports :
        /\ "SamlParsingError" \in OutcomesOf(runs[r], "StandardSamlParser")
        /\ "Success" \in OutcomesOf(runs[r], "RegexSamlParser")
        /\ HasCall(runs[r], "SamlParser", "found_any_values", "True")
        /\ parserTier(runs[r]) = "regex"

\* C9: when the standard parser succeeds in strict mode, the object has
\* values, a certificate blob is found and the certificate is built, the
\* report has samlValid = true, certValid = true and no errors.
C9_CleanStrictReport ==
    \A r \in Reports :
        /\ HasCall(runs[r], "SamlParser", "used_relaxed_parser", "False")
        /\ HasCall(runs[r], "SamlParser", "found_any_values", "True")
        /\ HasCall(runs[r], "Certificate", "__init__", "Certificate")
        => /\ saml_is_valid(runs[r]) = Return(TRUE)
           /\ cert_is_valid(runs[r]) = Return(TRUE)
           /\ get_errors(runs[r]) = Return(<<>>)

C9_Witness ==
    \E r \in Reports :
        /\ HasCall(runs[r], "SamlParser", "used_relaxed_parser", "False")
        /\ HasCall(runs[r], "SamlParser", "found_any_values", "True")
        /\ HasCall(runs[r], "Certificate", "__init__", "Certificate")
        /\ runs[r].args.input_type = "base64"

(***************************************************************************)
(* Two constructions on the same assertion (SpecPair)                      *)
(***************************************************************************)
\* what the parsers made of the content in a run, generic failures left out
Classifications(st) ==
    UNION { OutcomesOf(st, p) : p \in Parsers } \ {"SamlParsingError"}

\* the same extracted values and certificate blob, or both None
SameContent(a, b) ==
    IF a.type = "SamlParser" /\ b.type = "SamlParser"
    THEN a.found_any_values = b.found_any_values /\ a.certificate = b.certificate
    ELSE a = b

SameSamlObject(s1, s2) ==
    /\ "returned" \in DOMAIN get_saml(s1)
    /\ "returned" \in DOMAIN get_saml(s2)
    /\ SameContent(get_saml(s1).returned, get_saml(s2).returned)

\* both constructions returned, one on base64 text and one on XML text, and
\* the parsers classified the content the same way in both
EquivalentRuns ==
    /\ DOMAIN runs = {1, 2}
    /\ Reports = {1, 2}
    /\ runs[1].locals.input_type = "base64"
    /\ runs[2].locals.input_type = "xml"
    /\ Classifications(runs[1]) = Classifications(runs[2])
    /\ SameSamlObject(runs[1], runs[2])

WithoutWarnings(errors) == SelectSeq(errors, LAMBDA m : m \notin FallbackWarnings)

\* C10 as stated: two runs on the same assertion, one from base64 and one
\* from XML, that may end on different tiers, give reports identical in
\* samlValid, certValid, errors, samlObject and certificateObject.
C10_ReportsIdenticalButTier ==
    EquivalentRuns =>
        /\ saml_is_valid(runs[1]) = saml_is_valid(runs[2])
        /\ cert_is_valid(runs[1]) = cert_is_valid(runs[2])
        /\ get_errors(runs[1]) = get_errors(runs[2])
        /\ SameSamlObject(runs[1], runs[2])
        /\ get_certificate(runs[1]) = get_certificate(runs[2])

\* C10 as amended: the two reports are identical in samlValid, certValid,
\* samlObject and certificateObject, and their errors are identical once the
\* fallback warning is taken out; the errors are identical when the tiers are.
C10_ReportsIdenticalButTierAndWarning ==
    EquivalentRuns =>
        /\ saml_is_valid(runs[1]) = saml_is_valid(runs[2])
        /\ cert_is_valid(runs[1]) = cert_is_valid(runs[2])
        /\ WithoutWarnings(runs[1].self._errors) = WithoutWarnings(runs[2].self._errors)
        /\ parserTier(runs[1]) = parserTier(runs[2]) =>
              get_errors(runs[1]) = get_errors(runs[2])
        /\ SameSamlObject(runs[1], runs[2])
        /\ get_certificate(runs[1]) = get_certificate(runs[2])

C10_Witness ==
    /\ EquivalentRuns
    /\ parserTier(runs[1]) = "strict"
    /\ parserTier(runs[2]) = "regex"
    /\ cert_is_valid(runs[1]) = Return(TRUE)
    /\ cert_is_valid(runs[2]) = Return(TRUE)
    /\ get_errors(runs[1]) # get_errors(runs[2])


\* the structural parsers were not invoked and nothing is in the error log
NothingParsedNorLogged(st) ==
    /\ \A p \in Parsers : CallsTo(st, p) = {}
    /\ CallsTo(st, "HarParser") = {}
    /\ HasAttr(st.self, "_errors") => st.self._errors = <<>>

\* C11: an invalid input type, an invalid source or a file that is not found
\* aborts construction with an error raised to the caller: no parser is
\* invoked, no report is produced and nothing is appended to the error log;
\* an invalid input type is rejected before the source is read.
C11_FatalBeforeParsing ==
    \A r \in DOMAIN runs :
        LET st == runs[r]
        IN  /\ st.args.input_type = "json" =>
                  /\ st.pc \in {"start", "raised"}
                  /\ st.pc = "raised" => st.exc = "ValueError"
                  /\ st.calls = <<>>
                  /\ NothingParsedNorLogged(st)
            /\ st.args.source = "url" =>
                  /\ st.pc \in {"start", "read", "raised"}
                  /\ st.pc = "raised" => st.exc = "ValueError"
                  /\ st.calls = <<>>
                  /\ NothingParsedNorLogged(st)
            /\ HasCall(st, "TextReader", "_read_file", "FileNotFoundError") =>
                  /\ st.pc = "raised"
                  /\ st.exc = "FileNotFoundError"
                  /\ NothingParsedNorLogged(st)

C11_Witness ==
    \E r \in DOMAIN runs :
        /\ runs[r].pc = "raised"
        /\ runs[r].exc = "FileNotFoundError"
        /\ runs[r].args.source = "file"
        /\ HasCall(runs[r], "TextReader", "_read_file", "FileNotFoundError")

\* C12: in every report, get_certificate() returns a certificate object
\* exactly when cert_is_valid() is true, and returns None whenever no
\* certificate was parsed from the SAML data.
C12_CertificateObjectIffCertValid ==
    \A r \in Reports :
        LET got == get_certificate(runs[r])
        IN  /\ "returned" \in DOMAIN got
            /\ (got.returned.type = "Certificate") <=> (cert_is_valid(runs[r]) = Return(TRUE))
            /\ CallsTo(runs[r], "Certificate") = {} => got = Return(PyNone)


\* the run ended on the encrypted-response or the request outcome
TerminalContentOutcome(st) ==
    st.pc = "done" /\ (st.locals.is_encrypted \/ st.locals.is_a_response)

\* C13: whenever the terminal outcome is EncryptedResponse or IsARequest,
\* get_saml() returns None, whichever tier label the failure carried.
C13_NoObjectForEncryptedOrRequest ==
    \A r \in DOMAIN runs :
        TerminalContentOutcome(runs[r]) => get_saml(runs[r]) = Return(PyNone)

\* C14: if the standard parser attempt ends with "encrypted response" or
\* "is a request", the run terminates with that outcome and the regex
\* parser is never invoked, whatever tier label the failure carries.
C14_NoRegexAfterTerminalStandardOutcome ==
    \A r \in DOMAIN runs :
        LET st == runs[r]
        IN  /\ OutcomesOf(st, "StandardSamlParser")
                  \cap {"SamlResponseEncryptedError", "IsASamlRequest"} # {}
               => CallsTo(st, "RegexSamlParser") = {}
            /\ st.pc = "done" /\ "SamlResponseEncryptedError" \in OutcomesOf(st, "StandardSamlParser")
               => st.self._errors[Len(st.self._errors)] = EncryptedAdvisory
            /\ st.pc = "done" /\ "IsASamlRequest" \in OutcomesOf(st, "StandardSamlParser")
               => st.self._errors[Len(st.self._errors)] = RequestAdvisory


\* positions of the attempts of the two structural parsers in the call list
StandardAttempts(st) == CallsTo(st, "StandardSamlParser")

RegexAttempts(st) == CallsTo(st, "RegexSamlParser")

\* C15: in every run that reaches parsing the standard parser is attempted
\* exactly once and first; the regex parser is attempted at most once, only
\* after the standard attempt, always after a generic failure of the
\* standard attempt and never after its success.
C15_ParserAttemptOrder ==
    \A r \in DOMAIN runs :
        LET st == runs[r]
        IN  /\ Cardinality(StandardAttempts(st)) =
                  (IF HasAttr(st.self, "_parser_used") THEN 1 ELSE 0)
            /\ st.pc \in {"parse_regex", "fallback_warning", "encrypted_rule", "request_rule",
                          "no_values_rule", "certificate_rule", "done"}
               => HasAttr(st.self, "_parser_used")
            /\ Cardinality(RegexAttempts(st)) <= 1
            /\ \A j \in RegexAttempts(st) : \E i \in StandardAttempts(st) : i < j
            /\ "SamlParsingError" \in OutcomesOf(st, "StandardSamlParser") /\ st.pc # "parse_regex"
               => Cardinality(RegexAttempts(st)) = 1
            /\ "Success" \in OutcomesOf(st, "StandardSamlParser") => RegexAttempts(st) = {}

C15_Witness ==
    \E r \in Reports :
        /\ "SamlParsingError" \in OutcomesOf(runs[r], "StandardSamlParser")
        /\ Cardinality(StandardAttempts(runs[r])) = 1
        /\ Cardinality(RegexAttempts(runs[r])) = 1
        /\ \A j \in RegexAttempts(runs[r]) : \A i \in StandardAttempts(runs[r]) : i < j


\* the run got a raw certificate blob from the parsed object and it was found
\* (neither None nor empty)
BlobFound(st) ==
    /\ HasAttr(st.locals, "raw_cert")
    /\ st.locals.raw_cert \notin {PyNone, PyStr("")}

\* the run got no certificate blob from the parsed object
BlobMissing(st) ==
    /\ HasAttr(st.locals, "raw_cert")
    /\ st.locals.raw_cert \in {PyNone, PyStr("")}

\* number of entries of a list that are equal to a message
Count(errors, msg) == Cardinality({ i \in DOMAIN errors : errors[i] = msg })

\* C16: when samlValid is true and a raw certificate blob is found, the
\* construction gives a report whose certValid tells whether building the
\* certificate succeeded (false after a failed construction, samlValid
\* still true; true after a successful one).
C16_CertValidIsConstructionResult ==
    \A r \in DOMAIN runs :
        LET st == runs[r]
        IN  BlobFound(st) /\ st.pc \in {"done", "raised"} =>
               /\ st.pc = "done"
               /\ saml_is_valid(st) = Return(TRUE)
               /\ cert_is_valid(st) =
                     Return(HasCall(st, "Certificate", "__init__", "Certificate"))

\* C17: when the parse succeeds with values but no certificate blob is
\* found, exactly one missing-certificate message is appended, certValid is
\* false and samlValid remains true.
C17_MissingCertificateIsSoft ==
    \A r \in Reports :
        LET st == runs[r]
        IN  HasCall(st, "SamlParser", "found_any_values", "True") /\ BlobMissing(st) =>
               /\ Count(st.self._errors, NoCertificateMessage) = 1
               /\ st.self._errors[Len(st.self._errors)] = NoCertificateMessage
               /\ cert_is_valid(st) = Return(FALSE)
               /\ saml_is_valid(st) = Return(TRUE)
               /\ CallsTo(st, "Certificate") = {}

C17_Witness ==
    \E r \in Reports :
        /\ HasCall(runs[r], "SamlParser", "found_any_values", "True")
        /\ runs[r].locals.raw_cert = PyStr("")
        /\ Count(runs[r].self._errors, NoCertificateMessage) = 1

\* C18: when a parser succeeds but the parsed object reports no values, the
\* no-relevant-data message is appended, samlValid is false, neither
\* get_certificate nor the certificate construction is invoked and
\* certValid is false.
C18_NoValuesSkipsCertificate ==
    \A r \in Reports :
        LET st == runs[r]
        IN  HasCall(st, "SamlParser", "found_any_values", "False") =>
               /\ Count(st.self._errors, NoValuesMessage) = 1
               /\ st.self._errors[Len(st.self._errors)] = NoValuesMessage
               /\ saml_is_valid(st) = Return(FALSE)
               /\ \A i \in CallsTo(st, "SamlParser") : st.calls[i].fn # "get_certificate"
               /\ CallsTo(st, "Certificate") = {}
               /\ ~HasAttr(st.locals, "raw_cert")
               /\ cert_is_valid(st) = Return(FALSE)

C18_Witness ==
    \E r \in Reports :
        /\ HasCall(runs[r], "SamlParser", "found_any_values", "False")
        /\ "Success" \in OutcomesOf(runs[r], "RegexSamlParser")
        /\ runs[r].self._saml.certificate = PyStr("MIIC-good")
        /\ cert_is_valid(runs[r]) = Return(FALSE)


\* the four content messages
ContentMessages ==
    {EncryptedAdvisory, RequestAdvisory, NoValuesMessage, NoCertificateMessage}

\* an error list is at most one fallback warning, in front, and then at
\* most one content message
WellShaped(errors) ==
    /\ Len(errors) <= 2
    /\ \A i \in DOMAIN errors : errors[i] \in FallbackWarnings \cup ContentMessages
    /\ \A i \in DOMAIN errors : errors[i] \in FallbackWarnings => i = 1
    /\ Cardinality({ i \in DOMAIN errors : errors[i] \in ContentMessages }) <= 1

\* the list `new` is the list `old` with entries added at its end
IsPrefix(old, new) ==
    /\ Len(old) <= Len(new)
    /\ \A i \in DOMAIN old : new[i] = old[i]

\* C19: errors holds at most two messages, at most one fallback warning
\* that comes first and then at most one of the four content messages, and
\* during construction errors only grows by appending.
C19_ErrorLogShape ==
    /\ [](\A r \in DOMAIN runs :
             HasAttr(runs[r].self, "_errors") => WellShaped(runs[r].self._errors))
    /\ [][\A r \in DOMAIN runs :
             HasAttr(runs[r].self, "_errors") =>
                /\ HasAttr(runs'[r].self, "_errors")
                /\ IsPrefix(runs[r].self._errors, runs'[r].self._errors)]_vars

C19_Witness ==
    \E r \in Reports :
        /\ Len(runs[r].self._errors) = 2
        /\ runs[r].self._errors[1] = FallbackWarning("relaxed")
        /\ runs[r].self._errors[2] = NoCertificateMessage

\* C20: in every report, get_errors() is the empty list if and only if the
\* parser tier is strict, saml_is_valid() is true and cert_is_valid() is true.
C20_NoErrorsIffCleanStrict ==
    \A r \in Reports :
        (get_errors(runs[r]) = Return(<<>>)) <=>
            /\ parserTier(runs[r]) = "strict"
            /\ saml_is_valid(runs[r]) = Return(TRUE)
            /\ cert_is_valid(runs[r]) = Return(TRUE)

C20_Witness ==
    \E r \in Reports :
        /\ get_errors(runs[r]) = Return(<<>>)
        /\ parserTier(runs[r]) = "strict"
        /\ get_certificate(runs[r]).returned.type = "Certificate"

====
